---- MODULE Spec2Model ----
(***************************************************************************)
(* Model of the chat backend of hm3-agentic (src/src/app/domain/chat):     *)
(* the query_chat / chat_stream relay loop, the JSON session and team      *)
(* state files, the chat_messages table, and the authenticate endpoint.    *)
(* Every await of the source that touches shared state is one step of a    *)
(* request, so requests interleave exactly where the event loop can        *)
(* switch between them.                                                    *)
(***************************************************************************)
EXTENDS Integers, Sequences, FiniteSets, TLC

\* ------------------------------------------------------------------ bounds
MaxRequests == 3      \* requests started in one behaviour
MaxEvents == 2        \* events the agent runtime delivers in one behaviour
NumSlots == 2         \* requests that can be in flight at the same time

Slots == 1..NumSlots
Chats == {"c1", "c2"}      \* the chat (session) ids there are
Users == {"u1", "u2"}
NoUser == "NoUser"
None == "None"

\* ------------------------------------------------------------ text values
\* A Python str is a sequence of tokens; NL is the newline character and
\* SP a blank.  TERMINATE is the control word of the agents' prompts.
NL == "\n"
SP == " "
TERMINATE == "TERMINATE"
Whitespace == {NL, SP}

RECURSIVE lstrip(_)
lstrip(s) == IF s # <<>> /\ Head(s) \in Whitespace THEN lstrip(Tail(s)) ELSE s

RECURSIVE rstrip(_)
rstrip(s) ==
  IF s # <<>> /\ s[Len(s)] \in Whitespace THEN rstrip(SubSeq(s, 1, Len(s) - 1)) ELSE s

\* str.strip()
strip(s) == rstrip(lstrip(s))

\* "TERMINATE" in content
Contains(s, w) == \E i \in 1..Len(s) : s[i] = w

\* content.split(w, 1)[0]: the text before the first occurrence of w
SplitFirst(s, w) ==
  IF Contains(s, w)
  THEN LET i == CHOOSE k \in 1..Len(s) : s[k] = w /\ \A j \in 1..(k - 1) : s[j] # w
       IN SubSeq(s, 1, i - 1)
  ELSE s

\* ------------------------------------------------------------------- JSON
\* Encoded JSON is a sequence of tokens.  A string value is written between
\* two quote tokens with every newline escaped; a key is one token.
QUOTE == "\""
ESC_NL == "\\n"
FENCE == "fence"     \* the three backquotes of a Markdown code fence

JsonEscape_as_raw(s) == s

RECURSIVE JsonEscape(_)
JsonEscape(s) ==
  IF s = <<>> THEN <<>>
  ELSE <<(IF Head(s) = NL THEN ESC_NL ELSE Head(s))>> \o JsonEscape(Tail(s))

JsonString(s) == <<QUOTE>> \o JsonEscape(s) \o <<QUOTE>>

\* the token that writes a key and its colon
JsonKey == [type |-> "\"type\":", role |-> "\"role\":", message |-> "\"message\":"]

JsonField(k, v) == <<JsonKey[k]>> \o JsonString(v)

\* encode_json({"type": t, "role": r, "message": m}) + b"\n"
EncodeLine(t, r, m) ==
  <<"{">> \o JsonField("type", <<t>>) \o <<",">> \o JsonField("role", <<r>>)
          \o <<",">> \o JsonField("message", m) \o <<"}">> \o <<NL>>

ErrorMessage == <<" An error occurred - please try again.">>

\* (json.dumps({"role": "system", "message": ...}) + "\n").encode("utf-8")
ErrorLine ==
  <<"{">> \o JsonField("role", <<"system">>) \o <<",">>
          \o JsonField("message", ErrorMessage) \o <<"}">> \o <<NL>>

\* json.dumps(value) for the session and team-state files, and json.loads
\* of a non-empty file.  A file that was opened for writing and not yet
\* written holds the empty text.
json_dumps(v) == [empty |-> FALSE, json |-> v]
json_loads(text) == text.json

\* ---------------------------------------------------------- session files
\* The dict stored in sessions/<session_id>.json: the keys it holds, the
\* token and the chat history (timestamps are left out).
SessionDict(k, t, h) == [keys |-> k, token |-> t, chat_history |-> h]
EmptySessions == SessionDict({}, None, <<>>)
NewSessions == SessionDict({"token", "chat_history"}, None, <<>>)

EmptySessionText == [empty |-> TRUE, json |-> EmptySessions]
NoSessionFile == [exists |-> FALSE, text |-> EmptySessionText]

\* async_read_json(session_file_path)
async_read_json(file) ==
  IF file.exists /\ ~file.text.empty THEN json_loads(file.text) ELSE EmptySessions

\* sessions.get("token", None)
get_token(file) ==
  LET sessions == async_read_json(file)
  IN IF "token" \in sessions.keys THEN sessions.token ELSE None

\* bool(token)
TokenTruthy(t) == t # None /\ t # ""

verify_token_as_has_key(file) ==
  IF "token" \in async_read_json(file).keys
  THEN "Token authenticated" ELSE "Token not authenticated"

\* verify_token(session_id)
verify_token(file) ==
  IF TokenTruthy(get_token(file)) THEN "Token authenticated" ELSE "Token not authenticated"

\* ------------------------------------------------------- team-state files
\* The mapping team.save_state() returns; thread is the length of the
\* message thread the team has accumulated.
TeamState(n) == [isNone |-> FALSE, keys |-> {"type", "thread"}, thread |-> n]
EmptyState == [isNone |-> FALSE, keys |-> {}, thread |-> 0]
NoState == [isNone |-> TRUE, keys |-> {}, thread |-> 0]

EmptyTeamText == [empty |-> TRUE, json |-> EmptyState]
NoTeamFile == [exists |-> FALSE, text |-> EmptyTeamText]

\* get_team_state(session_id): None without a file, {} for an empty file
get_team_state(file) ==
  IF file.exists
  THEN (IF ~file.text.empty THEN json_loads(file.text) ELSE EmptyState)
  ELSE NoState

\* if team_state: in query_chat
StateTruthy(d) == ~d.isNone /\ d.keys # {}

\* ------------------------------------------------- agent runtime messages
\* What team.run_stream() can deliver.  source is "" for a class that has
\* no source attribute; content is the text of the message (a tool-call
\* request carries a list of calls instead, of which tool is the first name).
Agent == "hm3_general_agent"
Message(k, s, c, t) == [kind |-> k, source |-> s, content |-> c, tool |-> t]

Messages ==
  { Message("TextMessage", "user", <<"hi">>, ""),
    Message("TextMessage", Agent, <<"a", SP, TERMINATE, SP, "b">>, ""),
    Message("ToolCallRequestEvent", Agent, <<>>, "verify_token"),
    Message("ToolCallExecutionEvent", Agent, <<>>, "verify_token"),
    Message("ToolCallSummaryMessage", Agent, <<"ok", NL, TERMINATE>>, ""),
    Message("FunctionExecutionResultMessage", "", <<"ok">>, ""),
    Message("ThoughtEvent", Agent, <<"a">>, ""),
    Message("MemoryQueryEvent", Agent, <<>>, ""),
    Message("UserInputRequestedEvent", "user_agent", <<>>, ""),
    Message("HandoffMessage", Agent, <<"a">>, ""),
    Message("TaskResult", "", <<>>, "") }

Internals == {"ToolCallExecutionEvent", "MemoryQueryEvent", "ThoughtEvent"}
UserSources == {"user", "user_proxy", "user_agent"}
ToolResults == {"FunctionExecutionResultMessage", "ToolCallSummaryMessage"}

\* content after: if "TERMINATE" in content: content = content.split(...)[0].strip();
\* the content of a tool-call request is a list and never contains the word
CutContent(m) ==
  IF m.kind # "ToolCallRequestEvent" /\ Contains(m.content, TERMINATE)
  THEN strip(SplitFirst(m.content, TERMINATE))
  ELSE m.content

Entry(role, message, type) == [role |-> role, message |-> message, type |-> type]
NoEntry == Entry("", <<>>, "")

\* What one pass of the loop body of chat_stream does with a message:
\*   do = "skip"    continue without effect
\*        "stop"    termination.set() and break
\*        "persist" add_chat_session and continue
\*        "relay"   add_chat_session (when persist) and yield the line
Pass(d, p, e) == [do |-> d, persist |-> p, entry |-> e]

Classify_as_relay_only(m) ==
  IF m.kind \in Internals THEN Pass("skip", FALSE, NoEntry)
  ELSE IF m.kind = "UserInputRequestedEvent" THEN Pass("stop", FALSE, NoEntry)
  ELSE IF m.source = "" THEN Pass("skip", FALSE, NoEntry)
  ELSE IF m.source \in UserSources
       THEN Pass("persist", TRUE, Entry(m.source, m.content, "text"))
  ELSE Pass("relay", FALSE, Entry(m.source, CutContent(m), "text"))

Classify_as_no_input_stop(m) ==
  IF m.kind \in Internals THEN Pass("skip", FALSE, NoEntry)
  ELSE IF m.source = "" THEN Pass("skip", FALSE, NoEntry)
  ELSE IF m.source \in UserSources
       THEN Pass("persist", TRUE, Entry(m.source, m.content, "text"))
  ELSE Pass("relay", FALSE, Entry(m.source, CutContent(m), "text"))

Classify_as_no_internal_skip(m) ==
  IF m.kind = "UserInputRequestedEvent" THEN Pass("stop", FALSE, NoEntry)
  ELSE IF m.source = "" THEN Pass("skip", FALSE, NoEntry)
  ELSE IF m.source \in UserSources
       THEN Pass("persist", TRUE, Entry(m.source, m.content, "text"))
  ELSE Pass("relay", FALSE, Entry(m.source, CutContent(m), "text"))

Classify_as_cut_first(m) ==
  IF m.kind \in Internals THEN Pass("skip", FALSE, NoEntry)
  ELSE IF m.kind = "UserInputRequestedEvent" THEN Pass("stop", FALSE, NoEntry)
  ELSE IF m.source = "" THEN Pass("skip", FALSE, NoEntry)
  ELSE IF m.source \in UserSources
       THEN Pass("persist", TRUE, Entry(m.source, CutContent(m), "text"))
  ELSE Pass("relay", FALSE, Entry(m.source, CutContent(m), "text"))

Classify_as_untyped(m) ==
  IF m.kind \in Internals THEN Pass("skip", FALSE, NoEntry)
  ELSE IF m.kind = "UserInputRequestedEvent" THEN Pass("stop", FALSE, NoEntry)
  ELSE IF m.source = "" THEN Pass("skip", FALSE, NoEntry)
  ELSE IF m.source \in UserSources
       THEN Pass("persist", TRUE, Entry(m.source, m.content, "text"))
  ELSE IF m.kind = "TextMessage"
       THEN Pass("relay", TRUE, Entry(m.source, CutContent(m), "text"))
  ELSE IF m.kind = "ToolCallRequestEvent"
       THEN Pass("relay", TRUE, Entry(m.source, <<"Calling tool: ", m.tool>>, "text"))
  ELSE IF m.kind \in ToolResults
       THEN Pass("relay", TRUE,
                 Entry(m.source, <<FENCE, "json", NL>> \o m.content \o <<NL, FENCE>>,
                       "text"))
  ELSE Pass("relay", FALSE, Entry(m.source, CutContent(m), "text"))

Classify(m) ==
  IF m.kind \in Internals THEN Pass("skip", FALSE, NoEntry)
  ELSE IF m.kind = "UserInputRequestedEvent" THEN Pass("stop", FALSE, NoEntry)
  ELSE IF m.source = "" THEN Pass("skip", FALSE, NoEntry)
  ELSE IF m.source \in UserSources
       THEN Pass("persist", TRUE, Entry(m.source, m.content, "text"))
  ELSE IF m.kind = "TextMessage"
       THEN Pass("relay", TRUE, Entry(m.source, CutContent(m), "text"))
  ELSE IF m.kind = "ToolCallRequestEvent"
       THEN Pass("relay", TRUE, Entry(m.source, <<"Calling tool: ", m.tool>>, "tool_call"))
  ELSE IF m.kind \in ToolResults
       THEN Pass("relay", TRUE,
                 Entry(m.source, <<FENCE, "json", NL>> \o m.content \o <<NL, FENCE>>,
                       "tool_result"))
  ELSE Pass("relay", FALSE, Entry(m.source, CutContent(m), "text"))

\* ------------------------------------------------------ external login API
\* The dict make_request returns: the keys it holds and their values.
ResponseDict(k, e, t) == [keys |-> k, error |-> e, access_token |-> t]
ErrorDict(e) == ResponseDict({"error"}, e, None)

Token == "tok1"

\* What the HTTP exchange with the login API can come to.
Outcome(k, st, dec, j) == [kind |-> k, status |-> st, decodable |-> dec, json |-> j]

HttpOutcomes ==
  { Outcome("transport", 0, FALSE, ErrorDict("")),
    Outcome("timeout", 0, FALSE, ErrorDict("")),
    Outcome("response", 401, TRUE, ResponseDict({"detail"}, "", None)),
    Outcome("response", 200, FALSE, ErrorDict("")),
    Outcome("response", 200, TRUE, ResponseDict({"access_token"}, "", Token)),
    Outcome("response", 200, TRUE, ResponseDict({"access_token"}, "", None)),
    Outcome("response", 200, TRUE, ResponseDict({"detail"}, "", None)),
    Outcome("response", 400, TRUE, ErrorDict("Invalid credentials")) }

\* headers of make_request: the Authorization value, None when there is none
Bearer(t) == <<"Bearer ", t>>
NoHeader == <<>>

Authorization(token) == IF TokenTruthy(token) THEN Bearer(token) ELSE NoHeader

make_request_as_raise_for_status(o) ==
  IF o.kind # "response" THEN ErrorDict("Unexpected error occurred. Please try again later.")
  ELSE IF ~o.decodable
       THEN ErrorDict("Unexpected error occurred. Please try again later.")
  ELSE o.json

\* the try block of make_request
make_request(o) ==
  IF o.kind # "response" THEN ErrorDict("Unexpected error occurred. Please try again later.")
  ELSE IF o.status = 401 THEN ErrorDict("Unauthorized request.")
  ELSE IF ~o.decodable
       THEN ErrorDict("Unexpected error occurred. Please try again later.")
  ELSE o.json

\* res.get("access_token")
AccessToken(res) == IF "access_token" \in res.keys THEN res.access_token ELSE None

LoginFailed_as_error_key(res) == "error" \in res.keys /\ res.error # ""

\* `not res.get("access_token")` in authenticate
LoginFailed(res) == ~TokenTruthy(AccessToken(res))

\* ---------------------------------------------------------------- database
Row(c, role, message) == [chat_id |-> c, role |-> role, type |-> "text", message |-> message]

\* chat_message_service.list_and_count(user_id=..., chat_id=...): the rows
\* of the chat in creation order (chat_messages has no user column)
list_chat_messages(rows, c) == SelectSeq(rows, LAMBDA row : row.chat_id = c)

\* --------------------------------------------------- user chat history file
MaxCalls == 4         \* calls that write the user chat history file

\* One entry of a user's chat list.
UserChat(title, c, u, created, updated) ==
  [title |-> title, chat_id |-> c, user_id |-> u, created_at |-> created,
   updated_at |-> updated]

\* The dict of the file: the keys it has and the list under each; a file
\* that does not exist loads as the dict without keys.
NoUserChats == [u \in Users |-> [has |-> FALSE, list |-> <<>>]]

\* all_user_chats.get(user_id, [])
user_chats_get(all, u) == IF all[u].has THEN all[u].list ELSE <<>>

HasChat(list, c) == \E i \in 1..Len(list) : list[i].chat_id = c

\* the entry the for loop stops at
FirstChat(list, c) ==
  CHOOSE i \in 1..Len(list) :
    list[i].chat_id = c /\ \A j \in 1..(i - 1) : list[j].chat_id # c

add_chat_to_user_as_always_new(all, u, c, t) ==
  [all EXCEPT ![u] = [has |-> TRUE,
                      list |-> Append(user_chats_get(all, u),
                                      UserChat("New Chat", c, u, t, t))]]

\* add_chat_to_user up to save_user_chats, with current_datetime = t
add_chat_to_user(all, u, c, t) ==
  LET user_chats == user_chats_get(all, u)
      list == IF HasChat(user_chats, c)
              THEN [user_chats EXCEPT ![FirstChat(user_chats, c)].updated_at = t]
              ELSE Append(user_chats, UserChat("New Chat", c, u, t, t))
  IN [all EXCEPT ![u] = [has |-> TRUE, list |-> list]]

\* update_chat_title past its NotFoundException
update_chat_title(all, u, c, title) ==
  [all EXCEPT ![u].list =
     [i \in 1..Len(@) |-> IF @[i].chat_id = c THEN [@[i] EXCEPT !.title = title]
                           ELSE @[i]]]

Call(op, u, c, n) == [op |-> op, user |-> u, chat |-> c, n |-> n]
NoCall == Call("", "", "", 0)

\* ------------------------------------------------------------ user accounts
MaxUserOps == 4       \* user-account requests in one behaviour

Emails == {"e1", "e2"}
Passwords == {"p1", "p2"}
NoHash == <<>>        \* hashed_password is None

\* get_password_hash and verify_password: a hash verifies the password it
\* was made from and no other
get_password_hash(p) == <<"hash", p>>
verify_password(p, h) == h = get_password_hash(p)

UserRow(e, h, a) == [exists |-> TRUE, email |-> e, hashed_password |-> h, is_active |-> a]
NoRow == [exists |-> FALSE, email |-> "", hashed_password |-> NoHash, is_active |-> FALSE]

\* the rows get_one_or_none(email=username) selects among
ByEmail(table, e) == {id \in Users : table[id].exists /\ table[id].email = e}

AuthResult(o, id, e, p) == [outcome |-> o, id |-> id, username |-> e, password |-> p, n |-> 0]
NoAuth == AuthResult("", "", "", "")

authenticate_user_as_skip_active(table, e, p) ==
  LET found == ByEmail(table, e)
  IN IF found = {} THEN AuthResult("PermissionDenied", "", e, p)
     ELSE IF Cardinality(found) > 1 THEN AuthResult("MultipleResultsFound", "", e, p)
     ELSE LET id == CHOOSE i \in found : TRUE
          IN IF table[id].hashed_password = NoHash
             THEN AuthResult("PermissionDenied", "", e, p)
             ELSE IF ~verify_password(p, table[id].hashed_password)
             THEN AuthResult("PermissionDenied", "", e, p)
             ELSE AuthResult("user", id, e, p)

\* UserRepository.authenticate(username, password): the user it returns or
\* the exception it raises
authenticate_user(table, e, p) ==
  LET found == ByEmail(table, e)
  IN IF found = {} THEN AuthResult("PermissionDenied", "", e, p)
     ELSE IF Cardinality(found) > 1 THEN AuthResult("MultipleResultsFound", "", e, p)
     ELSE LET id == CHOOSE i \in found : TRUE
          IN IF table[id].hashed_password = NoHash
             THEN AuthResult("PermissionDenied", "", e, p)
             ELSE IF ~verify_password(p, table[id].hashed_password)
             THEN AuthResult("PermissionDenied", "", e, p)
             ELSE IF ~table[id].is_active
             THEN AuthResult("PermissionDenied", "", e, p)
             ELSE AuthResult("user", id, e, p)

\* the insert or update of a row with email e for id is refused by the
\* unique constraint
EmailTaken(table, unique, id, e) == unique /\ ByEmail(table, e) \ {id} # {}

deactivate_as_remove(row) == NoRow

\* user_obj.is_active = False
deactivate(row) == [row EXCEPT !.is_active = FALSE]

\* is_active of the UserUpdate payload: None when it is left out
Flags == {"None", "True", "False"}
FlagValue(f) == f = "True"

UserReq(pc, id, e, f, by, n) ==
  [pc |-> pc, id |-> id, email |-> e, is_active |-> f, by |-> by, n |-> n]
NoUserReq == UserReq("idle", "", "", "None", "", 0)

\* ---------------------------------------------------- download_reddit_video
MaxPosts == 6         \* posts in the listing of the subreddit
MaxLimit == 2         \* the limit argument
ListingLimit == 5     \* subreddit.top(limit=5), subreddit.new(limit=5)

\* A submission: its title, whether it is a video, and whether redvid
\* downloads it without raising.
Post(title, video, ok) == [title |-> title, is_video |-> video, ok |-> ok]

PostKinds ==
  { Post("Cat", TRUE, TRUE), Post("Cat", TRUE, FALSE), Post("Cat", FALSE, TRUE),
    Post("dog", TRUE, TRUE) }

KeywordLists == { <<>>, <<"CAT">> }

\* str.lower() on the titles and keywords there are
lower(t) == IF t \in {"Cat", "CAT"} THEN "cat" ELSE t

\* desired_keywords and not any(kw.lower() in title_lower ...) is false
Matches(post, kws) ==
  kws = <<>> \/ \E i \in 1..Len(kws) : lower(kws[i]) = lower(post.title)

\* an element of the returned list: a downloaded video, or the message
Item(kind, title, n) == [kind |-> kind, title |-> title, post |-> n]
NoVideosFound == Item("message", "No videos found", 0)

\* the posts the async for loop can see
Listing(posts) ==
  SubSeq(posts, 1, IF Len(posts) < ListingLimit THEN Len(posts) ELSE ListingLimit)

RECURSIVE Loop_as_abort_on_failure(_, _, _, _, _)
Loop_as_abort_on_failure(posts, i, downloaded, kws, limit) ==
  IF i > Len(posts) THEN downloaded
  ELSE IF Len(downloaded) >= limit THEN downloaded
  ELSE IF ~Matches(posts[i], kws)
       THEN Loop_as_abort_on_failure(posts, i + 1, downloaded, kws, limit)
  ELSE IF ~posts[i].is_video
       THEN Loop_as_abort_on_failure(posts, i + 1, downloaded, kws, limit)
  ELSE IF ~posts[i].ok THEN downloaded
  ELSE Loop_as_abort_on_failure(posts, i + 1,
                                Append(downloaded, Item("video", posts[i].title, i)),
                                kws, limit)

\* the async for loop from post i on
RECURSIVE Loop(_, _, _, _, _)
Loop(posts, i, downloaded, kws, limit) ==
  IF i > Len(posts) THEN downloaded
  ELSE IF Len(downloaded) >= limit THEN downloaded
  ELSE IF ~Matches(posts[i], kws) THEN Loop(posts, i + 1, downloaded, kws, limit)
  ELSE IF ~posts[i].is_video THEN Loop(posts, i + 1, downloaded, kws, limit)
  ELSE IF ~posts[i].ok THEN Loop(posts, i + 1, downloaded, kws, limit)
  ELSE Loop(posts, i + 1, Append(downloaded, Item("video", posts[i].title, i)),
            kws, limit)

Download(pc, posts, kws, limit, result, saved) ==
  [pc |-> pc, posts |-> posts, desired_keywords |-> kws, limit |-> limit,
   result |-> result, saved |-> saved]
NoDownload == Download("idle", <<>>, <<>>, 0, <<>>, FALSE)

Downloads ==
  { Download("call", posts, kws, limit, <<>>, FALSE) :
      posts \in UNION {[1..n -> PostKinds] : n \in 0..MaxPosts},
      kws \in KeywordLists, limit \in 0..MaxLimit }

\* ------------------------------------------------------ authenticate_youtube
MaxYoutubeCalls == 2  \* calls of authenticate_youtube in one behaviour

\* google.oauth2 Credentials: whether it has an access token, whether that
\* has expired, whether it has a refresh token; origin tells where the
\* object came from.  NoCreds is None.
Creds(token, expired, refresh_token, origin) ==
  [none |-> FALSE, token |-> token, expired |-> expired,
   refresh_token |-> refresh_token, origin |-> origin]
NoCreds == [none |-> TRUE, token |-> FALSE, expired |-> FALSE,
            refresh_token |-> FALSE, origin |-> ""]

\* creds.valid
valid(creds) == creds.token /\ ~creds.expired

\* the token file: readable is whether from_authorized_user_file parses it
TokenFile(exists, readable, creds) ==
  [exists |-> exists, readable |-> readable, creds |-> creds]
NoTokenFile == TokenFile(FALSE, FALSE, NoCreds)

TokenFiles ==
  {NoTokenFile, TokenFile(TRUE, FALSE, NoCreds)} \cup
  { TokenFile(TRUE, TRUE, Creds(t, e, r, "stored")) : t, e, r \in BOOLEAN }

\* what creds.refresh(Request()) and flow.run_local_server can come to
RefreshOutcomes == {"ok", "RefreshError", "error"}
FlowOutcomes == {"ok", "error"}

\* the result of a call: the credentials the client was built from, or that
\* the call raised; whether it refreshed, ran the flow, wrote the file
YoutubeResult(built, creds, raised, refreshed, flowed, written, removed) ==
  [built |-> built, creds |-> creds, raised |-> raised, refreshed |-> refreshed,
   flowed |-> flowed, written |-> written, removed |-> removed]
NoYoutubeResult == YoutubeResult(FALSE, NoCreds, FALSE, FALSE, FALSE, FALSE, FALSE)

\* creds = Credentials.from_authorized_user_file(...) or None
LoadCreds(file) == IF file.exists /\ file.readable THEN file.creds ELSE NoCreds

\* the file and the result after a call of authenticate_youtube
authenticate_youtube(file, refresh, flow) ==
  LET loaded == LoadCreds(file)
      tries == ~loaded.none /\ loaded.expired /\ loaded.refresh_token
      refreshed == Creds(TRUE, FALSE, TRUE, "refresh")
      flowed == Creds(TRUE, FALSE, TRUE, "flow")
  IN IF ~loaded.none /\ valid(loaded)
     THEN [file |-> file,
           result |-> YoutubeResult(TRUE, loaded, FALSE, FALSE, FALSE, FALSE, FALSE)]
     ELSE IF tries /\ refresh = "error"
     THEN [file |-> file,
           result |-> YoutubeResult(FALSE, NoCreds, TRUE, FALSE, FALSE, FALSE, FALSE)]
     ELSE IF tries /\ refresh = "ok"
     THEN [file |-> TokenFile(TRUE, TRUE, refreshed),
           result |-> YoutubeResult(TRUE, refreshed, FALSE, TRUE, FALSE, TRUE, FALSE)]
     ELSE LET removed == tries /\ refresh = "RefreshError"
              left == IF removed THEN NoTokenFile ELSE file
          IN IF loaded.none \/ removed
             THEN (IF flow = "error"
                   THEN [file |-> left,
                         result |-> YoutubeResult(FALSE, NoCreds, TRUE, FALSE, FALSE,
                                                  FALSE, removed)]
                   ELSE [file |-> TokenFile(TRUE, TRUE, flowed),
                         result |-> YoutubeResult(TRUE, flowed, FALSE, FALSE, TRUE, TRUE,
                                                  removed)])
             ELSE [file |-> TokenFile(TRUE, TRUE, loaded),
                   result |-> YoutubeResult(TRUE, loaded, FALSE, FALSE, FALSE, TRUE,
                                            FALSE)]

\* the token file before the last call, the call's outcomes and result
Youtube(file, before, refresh, flow, result, n) ==
  [file |-> file, before |-> before, refresh |-> refresh, flow |-> flow,
   result |-> result, n |-> n]
NoYoutube == Youtube(NoTokenFile, NoTokenFile, "", "", NoYoutubeResult, 0)

\* ------------------------------------------------------------------- state
VARIABLES
  chatOwner,     \* chats table: the owner of each chat id, NoUser when no row
  chatMessages,  \* chat_messages table, in creation order
  sessionFile,   \* sessions/<id>.json
  teamFile,      \* teams/<id>.json
  req,           \* the requests in flight, one per slot
  nReq,          \* requests started so far
  nEvents,       \* runtime messages delivered so far
  lastSaved,     \* history: the state the last completed run of a chat saved
  hist,          \* history: who created each chat id, the ids whose row was
                 \* deleted, the ids whose team-state file delete_team_state
                 \* has dealt with
  userChats,     \* the user chat history file: the chat list of each user
  now,           \* the clock datetime.now reads
  lastCall,      \* history: the last call that wrote the user chat history file
  users,         \* users table
  emailUnique,   \* whether the users table has a unique constraint on email
  userReq,       \* the update_user request under way
  lastAuth,      \* history: the last call of UserRepository.authenticate
  deactivated,   \* history: the ids deactivate_user has succeeded for
  reddit,        \* a download_reddit_video call: its inputs and its result
  youtube        \* the YouTube token file and the last authenticate_youtube call

\* the state outside the chat endpoints
otherVars == <<userChats, now, lastCall, users, emailUnique, userReq, lastAuth,
               deactivated, reddit, youtube>>

vars == <<chatOwner, chatMessages, sessionFile, teamFile, req, nReq, nEvents,
          lastSaved, hist, otherVars>>

\* the state of the chat endpoints
chatVars == <<chatOwner, chatMessages, sessionFile, teamFile, req, nReq, nEvents,
              lastSaved, hist>>

\* One entry of the record of a run: a persisted chat-history record, an
\* emitted line, the saved team state or the error line.
\* kind is the class of the runtime message the entry comes from.
TraceEntry(k, e, chunk, kind) == [k |-> k, entry |-> e, chunk |-> chunk, kind |-> kind]

\* creator: the user create_chat made each id for; deleted: the ids whose
\* row delete_chat removed; removed: the ids delete_team_state has run for
\* without an OS error
NoHistory == [creator |-> [c \in Chats |-> NoUser], deleted |-> {}, removed |-> {}]

Idle ==
  [pc |-> "idle", op |-> "", chat |-> "", user |-> "", input |-> <<>>,
   sessions |-> EmptySessions, step |-> Pass("skip", FALSE, NoEntry),
   termination |-> FALSE, thread |-> 0, loaded |-> NoState, fileSeen |-> FALSE,
   expected |-> NoState, state |-> NoState, token |-> None, auth |-> NoHeader,
   res |-> ErrorDict(""), outcome |-> Outcome("", 0, FALSE, ErrorDict("")),
   status |-> 0, raised |-> FALSE, raisedAt |-> 0, kind |-> "", source |-> "",
   content |-> <<>>,
   requested |-> FALSE, requestedAt |-> 0, writes |-> 0, verified |-> "",
   verifiedAt |-> 0,
   rows |-> <<>>, chats |-> {}, trace |-> <<>>, events |-> <<>>]

InitChats ==
  /\ chatOwner = [c \in Chats |-> NoUser]
  /\ chatMessages = <<>>
  /\ sessionFile = [c \in Chats |-> NoSessionFile]
  /\ teamFile = [c \in Chats |-> NoTeamFile]
  /\ req = [r \in Slots |-> Idle]
  /\ nReq = 0
  /\ nEvents = 0
  /\ lastSaved = [c \in Chats |-> NoState]
  /\ hist = NoHistory

InitUserChats ==
  /\ userChats = NoUserChats
  /\ now = 0
  /\ lastCall = NoCall

\* the users table is empty
InitUsers ==
  /\ users = [id \in Users |-> NoRow]
  /\ userReq = NoUserReq
  /\ lastAuth = NoAuth
  /\ deactivated = {}

Init ==
  /\ InitChats
  /\ InitUserChats
  /\ InitUsers
  /\ emailUnique = TRUE
  /\ reddit = NoDownload
  /\ youtube = NoYoutube

\* the schema of the deployment either has the unique constraint on
\* users.email or not
InitSchemas ==
  /\ InitChats
  /\ InitUserChats
  /\ InitUsers
  /\ emailUnique \in BOOLEAN
  /\ reddit = NoDownload
  /\ youtube = NoYoutube

\* a call of download_reddit_video with any listing, keywords and limit
InitReddit ==
  /\ InitChats
  /\ InitUserChats
  /\ InitUsers
  /\ emailUnique = TRUE
  /\ reddit \in Downloads
  /\ youtube = NoYoutube

\* the token file of the deployment is in any of its states
InitYoutube ==
  /\ InitChats
  /\ InitUserChats
  /\ InitUsers
  /\ emailUnique = TRUE
  /\ reddit = NoDownload
  /\ youtube \in {[NoYoutube EXCEPT !.file = f] : f \in TokenFiles}

\* ----------------------------------------------------------------- helpers
Update(r, new) == req' = [req EXCEPT ![r] = new]
Running(r, op, pc) == req[r].op = op /\ req[r].pc = pc

\* a new request takes the first slot that has none
Free(r) == req[r].pc = "idle" /\ \A q \in Slots : q < r => req[q].pc # "idle"

\* Delivering a response touches nothing that is shared, so it is taken
\* before any other step.
Settled == \A r \in Slots : req[r].pc # "done"

\* the awaits inside the try block of chat_stream
TryPcs == {"next_message", "save_open", "save_write", "team_open", "team_write"}

\* ------------------------------------------------------------ create_chat
\* the id of the new row is fresh
create_chat(u, c) ==
  /\ Settled
  /\ chatOwner[c] = NoUser
  /\ hist.creator[c] = NoUser
  /\ chatOwner' = [chatOwner EXCEPT ![c] = u]
  /\ hist' = [hist EXCEPT !.creator[c] = u]
  /\ UNCHANGED <<chatMessages, sessionFile, teamFile, req, nReq, nEvents, lastSaved, otherVars>>

\* ------------------------------------------------------------- query_chat
\* query_chat up to its Stream response: get_team_state, the insert of the
\* user's message (which fails on the foreign key when the chat has no row)
\* and team.load_state when a state was read
query_chat(r, u, c) ==
  /\ Settled
  /\ nReq < MaxRequests
  /\ Free(r)
  /\ nReq' = nReq + 1
  /\ LET team_state == get_team_state(teamFile[c])
         user_input == strip(<<SP, "hi">>)
         new == [Idle EXCEPT !.op = "query_chat", !.chat = c, !.user = u,
                             !.input = user_input, !.loaded = team_state,
                             !.fileSeen = teamFile[c].exists,
                             !.expected = lastSaved[c]]
     IN IF chatOwner[c] = NoUser
        THEN /\ Update(r, [new EXCEPT !.pc = "done", !.status = 500])
             /\ UNCHANGED chatMessages
        ELSE /\ chatMessages' = Append(chatMessages, Row(c, "user", user_input))
             /\ Update(r, [new EXCEPT
                             !.pc = "next_message", !.status = 200,
                             !.thread = IF StateTruthy(team_state)
                                        THEN team_state.thread ELSE 0])
  /\ UNCHANGED <<chatOwner, sessionFile, teamFile, nEvents, lastSaved, hist, otherVars>>

\* ------------------------------------------------------------ chat_stream
\* add_chat_session up to save_sessions: read the file, default an empty
\* dict, append the entry (KeyError when the dict has no chat_history)
add_chat_session_as_fresh(file, entry) ==
  [ok |-> TRUE, sessions |-> [NewSessions EXCEPT !.chat_history = Append(@, entry)]]

add_chat_session(file, entry) ==
  LET read == async_read_json(file)
      sessions == IF read.keys = {} THEN NewSessions ELSE read
  IN [ok |-> "chat_history" \in sessions.keys,
      sessions |-> [sessions EXCEPT !.chat_history = Append(@, entry)]]

Except_as_continue(q) ==
  [q EXCEPT !.pc = "next_message", !.raised = TRUE, !.raisedAt = Len(q.trace),
            !.trace = Append(@, TraceEntry("error", Entry("system", ErrorMessage, ""),
                                           ErrorLine, ""))]

\* the except branch: yield the error line, then the generator returns
Except(q) ==
  [q EXCEPT !.pc = "done", !.raised = TRUE, !.raisedAt = Len(q.trace),
            !.trace = Append(@, TraceEntry("error", Entry("system", ErrorMessage, ""),
                                           ErrorLine, ""))]

\* yield encode_json({...}) + b"\n", and back to the head of the loop
Yield(q, e) ==
  [q EXCEPT !.pc = "next_message",
            !.trace = Append(@, TraceEntry("line", e,
                                           EncodeLine(e.type, e.role, e.message),
                                           q.kind))]

SaveState_as_return(q) == [q EXCEPT !.pc = "done"]

\* the loop has ended: team.save_state() and json.dumps of its result
SaveState(q) == [q EXCEPT !.pc = "team_open", !.state = TeamState(q.thread + 1)]

\* one pass of the loop over the stream, up to its next await on a file
chat_stream_message(r, m) ==
  /\ Settled
  /\ Running(r, "query_chat", "next_message")
  /\ nEvents < MaxEvents
  /\ nEvents' = nEvents + 1
  /\ LET st == Classify(m)
         asked == m.kind = "UserInputRequestedEvent"
         q == [req[r] EXCEPT !.step = st, !.kind = m.kind, !.source = m.source,
                             !.content = m.content,
                             !.events = Append(@, m),
                             !.requested = @ \/ asked,
                             !.requestedAt = IF asked /\ ~req[r].requested
                                             THEN Len(req[r].trace) ELSE @]
         added == add_chat_session(sessionFile[req[r].chat], st.entry)
     IN CASE st.do = "skip" -> Update(r, q)
          [] st.do = "stop" -> Update(r, SaveState([q EXCEPT !.termination = TRUE]))
          [] st.do \in {"persist", "relay"} /\ st.persist ->
               IF added.ok
               THEN Update(r, [q EXCEPT !.pc = "save_open",
                                        !.sessions = added.sessions])
               ELSE Update(r, Except(q))
          [] OTHER -> Update(r, Yield(q, st.entry))
  /\ UNCHANGED <<chatOwner, chatMessages, sessionFile, teamFile, nReq, lastSaved, hist, otherVars>>

\* the stream is exhausted: the loop ends
chat_stream_exhausted(r) ==
  /\ Settled
  /\ Running(r, "query_chat", "next_message")
  /\ Update(r, SaveState(req[r]))
  /\ UNCHANGED <<chatOwner, chatMessages, sessionFile, teamFile, nReq, nEvents,
                 lastSaved, hist, otherVars>>

\* save_sessions: async_open(path, "w") truncates the file
save_sessions_open(r) ==
  /\ Settled
  /\ req[r].pc = "save_open"
  /\ sessionFile' = [sessionFile EXCEPT ![req[r].chat] =
                        [exists |-> TRUE, text |-> EmptySessionText]]
  /\ Update(r, [req[r] EXCEPT !.pc = "save_write", !.writes = @ + 1])
  /\ UNCHANGED <<chatOwner, chatMessages, teamFile, nReq, nEvents, lastSaved, hist, otherVars>>

save_sessions_write_as_one_file(r) ==
  /\ Settled
  /\ req[r].pc = "save_write"
  /\ sessionFile' = [c \in Chats |->
                        [exists |-> TRUE, text |-> json_dumps(req[r].sessions)]]
  /\ IF req[r].op = "query_chat"
     THEN LET e == req[r].step.entry
              q == [req[r] EXCEPT !.pc = "next_message",
                                  !.trace = Append(@, TraceEntry("record", e, <<>>,
                                                                 req[r].kind))]
          IN Update(r, IF req[r].step.do = "relay" THEN Yield(q, e) ELSE q)
     ELSE Update(r, [req[r] EXCEPT !.pc = "done", !.status = 201])
  /\ UNCHANGED <<chatOwner, chatMessages, teamFile, nReq, nEvents, lastSaved, hist, otherVars>>

\* save_sessions: f.write(json.dumps(sessions)); add_chat_session returns
\* and chat_stream yields the line of a relayed message, update_token
\* returns and authenticate answers
save_sessions_write(r) ==
  /\ Settled
  /\ req[r].pc = "save_write"
  /\ sessionFile' = [sessionFile EXCEPT ![req[r].chat] =
                        [exists |-> TRUE, text |-> json_dumps(req[r].sessions)]]
  /\ IF req[r].op = "query_chat"
     THEN LET e == req[r].step.entry
              q == [req[r] EXCEPT !.pc = "next_message",
                                  !.trace = Append(@, TraceEntry("record", e, <<>>,
                                                                 req[r].kind))]
          IN Update(r, IF req[r].step.do = "relay" THEN Yield(q, e) ELSE q)
     ELSE Update(r, [req[r] EXCEPT !.pc = "done", !.status = 201])
  /\ UNCHANGED <<chatOwner, chatMessages, teamFile, nReq, nEvents, lastSaved, hist, otherVars>>

\* save_team_state: async_open(path, "w") truncates the file
save_team_state_open(r) ==
  /\ Settled
  /\ Running(r, "query_chat", "team_open")
  /\ teamFile' = [teamFile EXCEPT ![req[r].chat] =
                     [exists |-> TRUE, text |-> EmptyTeamText]]
  /\ Update(r, [req[r] EXCEPT !.pc = "team_write"])
  /\ UNCHANGED <<chatOwner, chatMessages, sessionFile, nReq, nEvents, lastSaved, hist, otherVars>>

\* save_team_state: f.write(team_state); chat_stream ends
save_team_state_write(r) ==
  /\ Settled
  /\ Running(r, "query_chat", "team_write")
  /\ teamFile' = [teamFile EXCEPT ![req[r].chat] =
                     [exists |-> TRUE, text |-> json_dumps(req[r].state)]]
  /\ lastSaved' = [lastSaved EXCEPT ![req[r].chat] = req[r].state]
  /\ Update(r, [req[r] EXCEPT
                  !.pc = "done",
                  !.trace = Append(@, TraceEntry("save", NoEntry, <<>>, ""))])
  /\ UNCHANGED <<chatOwner, chatMessages, sessionFile, nReq, nEvents, hist, otherVars>>

\* the operation awaited inside the try block raises an Exception
chat_stream_raise(r) ==
  /\ Settled
  /\ req[r].op = "query_chat"
  /\ req[r].pc \in TryPcs
  /\ Update(r, Except(req[r]))
  /\ UNCHANGED <<chatOwner, chatMessages, sessionFile, teamFile, nReq, nEvents,
                 lastSaved, hist, otherVars>>

\* ----------------------------------------------------------- authenticate
\* authenticate -> login -> make_request up to the HTTP exchange:
\* token = await get_token(session_id) and the headers
authenticate(r, c) ==
  /\ Settled
  /\ nReq < MaxRequests
  /\ Free(r)
  /\ nReq' = nReq + 1
  /\ LET token == get_token(sessionFile[c])
     IN Update(r, [Idle EXCEPT !.pc = "request", !.op = "authenticate",
                               !.chat = c, !.token = token,
                               !.auth = Authorization(token)])
  /\ UNCHANGED <<chatOwner, chatMessages, sessionFile, teamFile, nEvents, lastSaved, hist, otherVars>>

\* update_token up to save_sessions
update_token(file, token) ==
  [async_read_json(file) EXCEPT !.keys = @ \cup {"token"}, !.token = token]

\* the HTTP exchange of login returns, authenticate checks the result and
\* save_token -> update_token reads the session
authenticate_login(r, o) ==
  /\ Settled
  /\ Running(r, "authenticate", "request")
  /\ LET res == make_request(o)
     IN IF LoginFailed(res)
        THEN Update(r, [req[r] EXCEPT !.pc = "done", !.res = res, !.outcome = o,
                                      !.status = 401])
        ELSE Update(r, [req[r] EXCEPT
                         !.pc = "save_open", !.res = res, !.outcome = o,
                         !.sessions = update_token(sessionFile[req[r].chat],
                                                   AccessToken(res))])
  /\ UNCHANGED <<chatOwner, chatMessages, sessionFile, teamFile, nReq, nEvents,
                 lastSaved, hist, otherVars>>

\* ----------------------------------------------------- tools and read-outs
\* the auth agent of a run calls its verify_token tool for the chat
verify_token_call(r) ==
  /\ Settled
  /\ Running(r, "query_chat", "next_message")
  /\ nEvents < MaxEvents
  /\ nEvents' = nEvents + 1
  /\ Update(r, [req[r] EXCEPT !.verifiedAt = nEvents + 1,
                              !.verified = verify_token(sessionFile[req[r].chat])])
  /\ UNCHANGED <<chatOwner, chatMessages, sessionFile, teamFile, nReq, lastSaved, hist, otherVars>>

list_chat_messages_request(r, u, c) ==
  /\ Settled
  /\ nReq < MaxRequests
  /\ Free(r)
  /\ nReq' = nReq + 1
  /\ Update(r, [Idle EXCEPT !.pc = "done", !.op = "list_chat_messages",
                            !.chat = c, !.user = u, !.status = 200,
                            !.rows = list_chat_messages(chatMessages, c)])
  /\ UNCHANGED <<chatOwner, chatMessages, sessionFile, teamFile, nEvents, lastSaved, hist, otherVars>>

\* ------------------------------------------------ chats of a user, deletion
\* chat_service.list_and_count(user_id=user_id): the ids of the rows of u
list_chats_as_all(owner, u) == {c \in Chats : owner[c] # NoUser}

list_chats(owner, u) == {c \in Chats : owner[c] = u}

get_one_or_none_as_by_id(owner, c, u) == IF owner[c] # NoUser THEN c ELSE None

\* chat_service.get_one_or_none(id=chat_id, user_id=user_id)
get_one_or_none(owner, c, u) == IF owner[c] = u THEN c ELSE None

list_chats_request(r, u) ==
  /\ Settled
  /\ nReq < MaxRequests
  /\ Free(r)
  /\ nReq' = nReq + 1
  /\ Update(r, [Idle EXCEPT !.pc = "done", !.op = "list_chats", !.user = u,
                            !.status = 200, !.chats = list_chats(chatOwner, u)])
  /\ UNCHANGED <<chatOwner, chatMessages, sessionFile, teamFile, nEvents, lastSaved,
                 hist, otherVars>>

get_user_chat_detail(r, u, c) ==
  /\ Settled
  /\ nReq < MaxRequests
  /\ Free(r)
  /\ nReq' = nReq + 1
  /\ LET chat == get_one_or_none(chatOwner, c, u)
     IN Update(r, [Idle EXCEPT !.pc = "done", !.op = "get_user_chat_detail",
                               !.user = u, !.chat = c,
                               !.status = IF chat = None THEN 404 ELSE 200,
                               !.chats = IF chat = None THEN {} ELSE {chat}])
  /\ UNCHANGED <<chatOwner, chatMessages, sessionFile, teamFile, nEvents, lastSaved,
                 hist, otherVars>>

\* delete_chat up to chat_service.delete: the ownership check
delete_chat(r, u, c) ==
  /\ Settled
  /\ nReq < MaxRequests
  /\ Free(r)
  /\ nReq' = nReq + 1
  /\ LET new == [Idle EXCEPT !.op = "delete_chat", !.user = u, !.chat = c]
     IN IF get_one_or_none(chatOwner, c, u) = None
        THEN Update(r, [new EXCEPT !.pc = "done", !.status = 404])
        ELSE Update(r, [new EXCEPT !.pc = "delete"])
  /\ UNCHANGED <<chatOwner, chatMessages, sessionFile, teamFile, nEvents, lastSaved,
                 hist, otherVars>>

cascade_as_keep(rows, c) == rows

\* cascade="all, delete-orphan" and ondelete="CASCADE": the messages of the
\* chat go with its row
cascade(rows, c) == SelectSeq(rows, LAMBDA row : row.chat_id # c)

\* chat_service.delete(item_id=chat_id), which raises when the row has gone
\* in the meantime, and the Response with its background task
delete_chat_delete(r) ==
  /\ Settled
  /\ Running(r, "delete_chat", "delete")
  /\ IF chatOwner[req[r].chat] = NoUser
     THEN /\ Update(r, [req[r] EXCEPT !.pc = "done", !.status = 500])
          /\ UNCHANGED <<chatOwner, chatMessages, hist>>
     ELSE /\ chatOwner' = [chatOwner EXCEPT ![req[r].chat] = NoUser]
          /\ chatMessages' = cascade(chatMessages, req[r].chat)
          /\ hist' = [hist EXCEPT !.deleted = @ \cup {req[r].chat}]
          /\ Update(r, [req[r] EXCEPT !.pc = "background", !.status = 200])
  /\ UNCHANGED <<sessionFile, teamFile, nReq, nEvents, lastSaved, otherVars>>

\* the background task delete_team_state(chat_id_str): os.remove of an
\* existing file, which can fail with an OSError that is logged
delete_team_state(r, oserror) ==
  /\ Settled
  /\ Running(r, "delete_chat", "background")
  /\ IF teamFile[req[r].chat].exists /\ oserror
     THEN UNCHANGED <<teamFile, hist>>
     ELSE /\ teamFile' = [teamFile EXCEPT ![req[r].chat] = NoTeamFile]
          /\ hist' = [hist EXCEPT !.removed = @ \cup {req[r].chat}]
  /\ Update(r, [req[r] EXCEPT !.pc = "done"])
  /\ UNCHANGED <<chatOwner, chatMessages, sessionFile, nReq, nEvents, lastSaved, otherVars>>

\* the response has been delivered: the slot is free again
Finish(r) ==
  /\ req[r].pc = "done"
  /\ Update(r, Idle)
  /\ UNCHANGED <<chatOwner, chatMessages, sessionFile, teamFile, nReq, nEvents,
                 lastSaved, hist, otherVars>>

\* The steps of the system with chats drawn from C, users from U and
\* runtime messages from M.
Step(C, U, M) ==
  \/ \E u \in U, c \in C : create_chat(u, c)
  \/ \E r \in Slots, u \in U, c \in C : query_chat(r, u, c)
  \/ \E r \in Slots, m \in M : chat_stream_message(r, m)
  \/ \E r \in Slots : chat_stream_exhausted(r)
  \/ \E r \in Slots : save_sessions_open(r)
  \/ \E r \in Slots : save_sessions_write(r)
  \/ \E r \in Slots : save_team_state_open(r)
  \/ \E r \in Slots : save_team_state_write(r)
  \/ \E r \in Slots : chat_stream_raise(r)
  \/ \E r \in Slots, c \in C : authenticate(r, c)
  \/ \E r \in Slots, o \in HttpOutcomes : authenticate_login(r, o)
  \/ \E r \in Slots : verify_token_call(r)
  \/ \E r \in Slots, u \in U, c \in C : list_chat_messages_request(r, u, c)
  \/ \E r \in Slots : Finish(r)

\* ------------------------------------------- the session store by itself
\* Two sessions, each written by the runs of its chat and by authenticate;
\* the writes themselves do not fail.
SessionMessages ==
  { Message("TextMessage", "user", <<"hi">>, ""),
    Message("TextMessage", Agent, <<"a">>, "") }

LoginOutcomes ==
  { Outcome("response", 200, TRUE, ResponseDict({"access_token"}, "", Token)),
    Outcome("response", 401, TRUE, ResponseDict({"detail"}, "", None)) }

NextSessions ==
  \/ \E c \in Chats : create_chat("u1", c)
  \/ \E r \in Slots, c \in Chats : query_chat(r, "u1", c)
  \/ \E r \in Slots, m \in SessionMessages : chat_stream_message(r, m)
  \/ \E r \in Slots : chat_stream_exhausted(r)
  \/ \E r \in Slots : save_sessions_open(r)
  \/ \E r \in Slots : save_sessions_write(r)
  \/ \E r \in Slots : save_team_state_open(r)
  \/ \E r \in Slots : save_team_state_write(r)
  \/ \E r \in Slots, c \in Chats : authenticate(r, c)
  \/ \E r \in Slots, o \in LoginOutcomes : authenticate_login(r, o)
  \/ \E r \in Slots : Finish(r)

SpecSessions == Init /\ [][NextSessions]_vars

\* ----------------------------------------------- user chat history, steps
\* one call of add_chat_to_user from load_user_chats to save_user_chats;
\* the clock does not go back between two calls
add_chat_to_user_call(u, c) ==
  /\ lastCall.n < MaxCalls
  /\ \E d \in {0, 1} :
       /\ now' = now + d
       /\ userChats' = add_chat_to_user(userChats, u, c, now + d)
  /\ lastCall' = Call("add_chat_to_user", u, c, lastCall.n + 1)
  /\ UNCHANGED <<chatVars, youtube, users, emailUnique, userReq, lastAuth, deactivated, reddit>>

\* one call of update_chat_title, which raises for a user without a list
update_chat_title_call(u, c, title) ==
  /\ lastCall.n < MaxCalls
  /\ userChats[u].has
  /\ userChats' = update_chat_title(userChats, u, c, title)
  /\ lastCall' = Call("update_chat_title", u, c, lastCall.n + 1)
  /\ UNCHANGED <<chatVars, youtube, now, users, emailUnique, userReq, lastAuth, deactivated, reddit>>

NextUserChats ==
  \/ \E u \in Users, c \in Chats : add_chat_to_user_call(u, c)
  \/ \E u \in Users, c \in Chats : update_chat_title_call(u, c, "Topic")

SpecUserChats == Init /\ [][NextUserChats]_vars

\* ---------------------------------------------------- user accounts, steps
\* create_user: UserRepository.add with the dict of the request; the id of
\* the new row is fresh
create_user(id, e, p) ==
  /\ userReq.n < MaxUserOps
  /\ ~users[id].exists
  /\ userReq' = [userReq EXCEPT !.n = @ + 1]
  /\ users' = IF EmailTaken(users, emailUnique, id, e) THEN users
              ELSE [users EXCEPT ![id] = UserRow(e, get_password_hash(p), TRUE)]
  /\ UNCHANGED <<chatVars, youtube, userChats, now, lastCall, emailUnique, lastAuth,
                 deactivated, reddit>>

\* UserRepository.add with a User object that has no password hash
add_user(id, e) ==
  /\ userReq.n < MaxUserOps
  /\ ~users[id].exists
  /\ userReq' = [userReq EXCEPT !.n = @ + 1]
  /\ users' = IF EmailTaken(users, emailUnique, id, e) THEN users
              ELSE [users EXCEPT ![id] = UserRow(e, NoHash, TRUE)]
  /\ UNCHANGED <<chatVars, youtube, userChats, now, lastCall, emailUnique, lastAuth,
                 deactivated, reddit>>

\* a call of UserRepository.authenticate on its own
authenticate_call(e, p) ==
  /\ userReq.n < MaxUserOps
  /\ userReq' = [userReq EXCEPT !.n = @ + 1]
  /\ lastAuth' = [authenticate_user(users, e, p) EXCEPT !.n = userReq.n + 1]
  /\ UNCHANGED <<chatVars, youtube, userChats, now, lastCall, users, emailUnique,
                 deactivated, reddit>>

\* update_user up to users_repo.update: the credential check with the email
\* and password of the payload; the row to update is the one of the path
update_user(id, e, p, f) ==
  /\ userReq.n < MaxUserOps
  /\ userReq.pc = "idle"
  /\ LET a == authenticate_user(users, e, p)
     IN /\ lastAuth' = [a EXCEPT !.n = userReq.n + 1]
        /\ userReq' = IF a.outcome = "user"
                      THEN UserReq("update", id, e, f, a.id, userReq.n + 1)
                      ELSE [userReq EXCEPT !.n = @ + 1]
  /\ UNCHANGED <<chatVars, youtube, userChats, now, lastCall, users, emailUnique,
                 deactivated, reddit>>

\* users_repo.update(m.User(**raw_user)) and the commit: the row of the
\* path must exist; the session writes the attributes of the payload that
\* differ from the row it has loaded, which for the row of the
\* authenticated user is the one the credential check read
update_user_update ==
  /\ userReq.pc = "update"
  /\ userReq' = [NoUserReq EXCEPT !.n = userReq.n]
  /\ LET id == userReq.id
         own == id = userReq.by
         flag == IF userReq.is_active = "None" THEN users[id].is_active
                 ELSE FlagValue(userReq.is_active)
     IN users' =
          IF ~users[id].exists THEN users
          ELSE IF own
          THEN (IF userReq.is_active = "False"
                THEN [users EXCEPT ![id].is_active = FALSE] ELSE users)
          ELSE IF EmailTaken(users, emailUnique, id, userReq.email) THEN users
          ELSE [users EXCEPT ![id].email = userReq.email, ![id].is_active = flag]
  /\ UNCHANGED <<chatVars, youtube, userChats, now, lastCall, emailUnique, lastAuth,
                 deactivated, reddit>>

\* deactivate_user: users_repo.get raises for an id without a row
deactivate_user(id) ==
  /\ userReq.n < MaxUserOps
  /\ users[id].exists
  /\ userReq' = [userReq EXCEPT !.n = @ + 1]
  /\ users' = [users EXCEPT ![id] = deactivate(@)]
  /\ deactivated' = deactivated \cup {id}
  /\ UNCHANGED <<chatVars, youtube, userChats, now, lastCall, emailUnique, lastAuth, reddit>>

NextUsers ==
  \/ \E id \in Users, e \in Emails, p \in Passwords : create_user(id, e, p)
  \/ \E id \in Users, e \in Emails : add_user(id, e)
  \/ \E e \in Emails, p \in Passwords : authenticate_call(e, p)
  \/ \E id \in Users, e \in Emails, p \in Passwords, f \in Flags :
       update_user(id, e, p, f)
  \/ update_user_update
  \/ \E id \in Users : deactivate_user(id)

SpecUsers == InitSchemas /\ [][NextUsers]_vars

\* ---------------------------------------------- authenticate_youtube, steps
\* one call of authenticate_youtube
authenticate_youtube_call(refresh, flow) ==
  /\ youtube.n < MaxYoutubeCalls
  /\ LET out == authenticate_youtube(youtube.file, refresh, flow)
     IN youtube' = Youtube(out.file, youtube.file, refresh, flow, out.result,
                           youtube.n + 1)
  /\ UNCHANGED <<chatVars, userChats, now, lastCall, users, emailUnique, userReq,
                 lastAuth, deactivated, reddit>>

\* time passes: the access token of the stored credentials expires
token_expires ==
  /\ youtube.file.exists /\ youtube.file.readable
  /\ ~youtube.file.creds.expired
  /\ youtube' = [youtube EXCEPT !.file.creds.expired = TRUE]
  /\ UNCHANGED <<chatVars, userChats, now, lastCall, users, emailUnique, userReq,
                 lastAuth, deactivated, reddit>>

NextYoutube ==
  \/ \E refresh \in RefreshOutcomes, flow \in FlowOutcomes :
       authenticate_youtube_call(refresh, flow)
  \/ token_expires

SpecYoutube == InitYoutube /\ [][NextYoutube]_vars

\* ---------------------------------------------- download_reddit_video, step
\* the whole call: the loop, then save_download_history and the list, or
\* the message
download_reddit_video ==
  /\ reddit.pc = "call"
  /\ LET downloaded == Loop(Listing(reddit.posts), 1, <<>>, reddit.desired_keywords,
                            reddit.limit)
     IN reddit' = IF downloaded # <<>>
                  THEN [reddit EXCEPT !.pc = "done", !.result = downloaded,
                                      !.saved = TRUE]
                  ELSE [reddit EXCEPT !.pc = "done", !.result = <<NoVideosFound>>]
  /\ UNCHANGED <<chatVars, youtube, userChats, now, lastCall, users, emailUnique, userReq,
                 lastAuth, deactivated>>

NextReddit == download_reddit_video

SpecReddit == InitReddit /\ [][NextReddit]_vars

\* ------------------------------------------------- the relay loop by itself
\* Runtime messages chosen by source: without one, from the user side,
\* from an agent.
StreamMessages ==
  { Message("TextMessage", "user", <<"hi", SP, TERMINATE, SP>>, ""),
    Message("TextMessage", "user_proxy", <<"a">>, ""),
    Message("HandoffMessage", "user_agent", <<"a">>, ""),
    Message("UserInputRequestedEvent", "user_agent", <<>>, ""),
    Message("TextMessage", "", <<"a">>, ""),
    Message("TaskResult", "", <<>>, ""),
    Message("ThoughtEvent", Agent, <<"a">>, ""),
    Message("ToolCallExecutionEvent", "", <<"ok">>, "verify_token"),
    Message("MemoryQueryEvent", "user", <<"a">>, ""),
    Message("TextMessage", Agent, <<"a">>, "") }

NextStream ==
  \/ \E u \in {"u1"}, c \in {"c1"} : create_chat(u, c)
  \/ \E r \in Slots, u \in {"u1"}, c \in {"c1"} : query_chat(r, u, c)
  \/ \E r \in Slots, m \in StreamMessages : chat_stream_message(r, m)
  \/ \E r \in Slots : chat_stream_exhausted(r)
  \/ \E r \in Slots : save_sessions_open(r)
  \/ \E r \in Slots : save_sessions_write(r)
  \/ \E r \in Slots : save_team_state_open(r)
  \/ \E r \in Slots : save_team_state_write(r)
  \/ \E r \in Slots : chat_stream_raise(r)
  \/ \E r \in Slots : Finish(r)

SpecStream == Init /\ [][NextStream]_vars

\* One chat and its owner: every operation is keyed by the chat id, and the
\* requests of one chat share its files and rows.
Next == Step({"c1"}, {"u1"}, Messages)

Spec == Init /\ [][Next]_vars

\* Two users and two chats: creation, the reads, deletion with its
\* background task, and runs that reach the end of their stream.
NextChats ==
  \/ \E u \in Users, c \in Chats : create_chat(u, c)
  \/ \E r \in Slots, u \in Users : list_chats_request(r, u)
  \/ \E r \in Slots, u \in Users, c \in Chats : get_user_chat_detail(r, u, c)
  \/ \E r \in Slots, u \in Users, c \in Chats : delete_chat(r, u, c)
  \/ \E r \in Slots : delete_chat_delete(r)
  \/ \E r \in Slots, oserror \in BOOLEAN : delete_team_state(r, oserror)
  \/ \E r \in Slots, u \in Users, c \in Chats : query_chat(r, u, c)
  \/ \E r \in Slots : chat_stream_exhausted(r)
  \/ \E r \in Slots : save_team_state_open(r)
  \/ \E r \in Slots : save_team_state_write(r)
  \/ \E r \in Slots : Finish(r)

SpecChats == Init /\ [][NextChats]_vars

\* ================================================================== claims
Trace(r) == req[r].trace
Lines(r) == {i \in 1..Len(Trace(r)) : Trace(r)[i].k = "line"}
Ended(r) == req[r].op = "query_chat" /\ req[r].pc = "done" /\ req[r].status = 200

\* the message classes whose branch of chat_stream calls add_chat_session
\* before the yield
PersistedKinds == {"TextMessage", "ToolCallRequestEvent", "ToolCallSummaryMessage"}

\* C1 as stated: every line written to the output stream, the error line
\* included, has a chat-history record with the same role, type and
\* message that was written before it.
C1_EveryLinePersisted ==
  \A r \in Slots : \A i \in 1..Len(Trace(r)) :
    Trace(r)[i].k \in {"line", "error"} =>
      \E j \in 1..(i - 1) : /\ Trace(r)[j].k = "record"
                            /\ Trace(r)[j].entry = Trace(r)[i].entry

\* C1 amended: every line chat_stream writes for a text message, a
\* tool-call request or a tool-call summary was first persisted as a
\* chat-history record with the same role, type and message: as many
\* such records precede the line as there are such lines up to it.
C1_RelayedLinePersisted ==
  \A r \in Slots : \A i \in Lines(r) :
    Trace(r)[i].kind \in PersistedKinds =>
      Cardinality({j \in 1..(i - 1) : /\ Trace(r)[j].k = "record"
                                      /\ Trace(r)[j].entry = Trace(r)[i].entry})
        >= Cardinality({j \in Lines(r) : /\ j <= i
                                         /\ Trace(r)[j].kind \in PersistedKinds
                                         /\ Trace(r)[j].entry = Trace(r)[i].entry})

C1_Witness ==
  \E r \in Slots : \E i \in Lines(r) :
    Trace(r)[i].kind = "TextMessage" /\ req[r].pc = "done" /\ ~req[r].raised

\* C2: once an exception has been raised inside chat_stream the run has
\* ended normally (the response stays the 200 stream), the error line with
\* role "system" is its last output and the only one of its kind, and
\* nothing was persisted or emitted after the exception.
C2_ErrorLineEndsRun ==
  \A r \in Slots :
    req[r].raised =>
      /\ req[r].pc = "done" /\ req[r].status = 200
      /\ Len(Trace(r)) = req[r].raisedAt + 1
      /\ Trace(r)[Len(Trace(r))].k = "error"
      /\ Trace(r)[Len(Trace(r))].entry.role = "system"
      /\ Trace(r)[Len(Trace(r))].chunk = ErrorLine
      /\ Cardinality({i \in 1..Len(Trace(r)) : Trace(r)[i].k = "error"}) = 1

C2_Witness ==
  \E r \in Slots : req[r].raised /\ req[r].raisedAt >= 2 /\ req[r].pc = "done"

\* C3: once a UserInputRequestedEvent has been delivered the termination
\* condition is set and the loop is left: nothing is persisted or emitted
\* for a later message, and a run that ends without an exception has
\* saved the team state as its next and last step.
C3_StopOnUserInputRequest ==
  \A r \in Slots :
    req[r].requested =>
      /\ req[r].termination
      /\ req[r].pc \in {"team_open", "team_write", "done"}
      /\ \A i \in 1..Len(Trace(r)) :
           i > req[r].requestedAt => Trace(r)[i].k \in {"save", "error"}
      /\ (req[r].pc = "done" /\ ~req[r].raised) =>
           /\ Len(Trace(r)) = req[r].requestedAt + 1
           /\ Trace(r)[Len(Trace(r))].k = "save"
           /\ lastSaved[req[r].chat] # NoState

C3_Witness ==
  \E r \in Slots : /\ req[r].requested /\ req[r].requestedAt >= 1
                   /\ req[r].pc = "done" /\ ~req[r].raised

\* C4: a run that has ended without an exception saved the team state
\* exactly once, after every line it emitted.
C4_SaveOnceAfterLastLine ==
  \A r \in Slots :
    (Ended(r) /\ ~req[r].raised) =>
      /\ Trace(r) # <<>>
      /\ Trace(r)[Len(Trace(r))].k = "save"
      /\ Cardinality({i \in 1..Len(Trace(r)) : Trace(r)[i].k = "save"}) = 1
      /\ \A i \in Lines(r) : i < Len(Trace(r))

C4_Witness ==
  \E r \in Slots : Ended(r) /\ ~req[r].raised /\ Lines(r) # {} /\ ~req[r].requested

\* the state query_chat passed to team.load_state, NoState when it did not
LoadedState(r) == IF StateTruthy(req[r].loaded) THEN req[r].loaded ELSE NoState

\* C5 as stated: a query_chat loads exactly the state the most recent
\* completed run of the chat saved, and nothing when there is no file.
C5_LoadsLastSavedState ==
  \A r \in Slots :
    (req[r].op = "query_chat" /\ req[r].status = 200) =>
      /\ LoadedState(r) = req[r].expected
      /\ ~req[r].fileSeen => LoadedState(r) = NoState

\* a chunk is one JSON object and one newline: braces around fields that
\* are separated by commas, each a key and a quoted string, no newline
\* before the last token
KeyTokens == {JsonKey[k] : k \in DOMAIN JsonKey}

RECURSIVE FieldsOk(_)
FieldsOk(s) ==
  /\ Len(s) >= 3
  /\ s[1] \in KeyTokens
  /\ s[2] = QUOTE
  /\ \E j \in 3..Len(s) :
       /\ s[j] = QUOTE
       /\ \A k \in 3..(j - 1) : s[k] # QUOTE
       /\ \/ j = Len(s)
          \/ /\ j + 1 < Len(s)
             /\ s[j + 1] = ","
             /\ FieldsOk(SubSeq(s, j + 2, Len(s)))

IsJsonLine(c) ==
  /\ Len(c) >= 3
  /\ c[1] = "{"
  /\ c[Len(c) - 1] = "}"
  /\ c[Len(c)] = NL
  /\ \A i \in 1..(Len(c) - 1) : c[i] # NL
  /\ FieldsOk(SubSeq(c, 2, Len(c) - 2))
  /\ \E i \in 1..Len(c) : c[i] = JsonKey.role
  /\ \E i \in 1..Len(c) : c[i] = JsonKey.message

\* C6: every chunk chat_stream yields, the error line included, is one
\* complete JSON object followed by one newline and has a role and a
\* message field.
C6_JsonLines ==
  \A r \in Slots : \A i \in 1..Len(Trace(r)) :
    Trace(r)[i].k \in {"line", "error"} => IsJsonLine(Trace(r)[i].chunk)

C6_Witness ==
  \E r \in Slots : \E i \in Lines(r) : Contains(Trace(r)[i].entry.message, NL)

RECURSIVE IsSubseq(_, _)
IsSubseq(a, b) ==
  IF a = <<>> THEN TRUE
  ELSE IF b = <<>> THEN FALSE
  ELSE IF Head(a) = Head(b) THEN IsSubseq(Tail(a), Tail(b))
  ELSE IsSubseq(a, Tail(b))

Said(role, message) == [role |-> role, message |-> message]

\* what the client was sent during the run, after its own message
Relayed(r) ==
  LET t == SelectSeq(Trace(r), LAMBDA e : e.k = "line")
  IN <<Said("user", req[r].input)>>
       \o [i \in 1..Len(t) |-> Said(t[i].entry.role, t[i].entry.message)]

Listed(c) ==
  LET rows == list_chat_messages(chatMessages, c)
  IN [i \in 1..Len(rows) |-> Said(rows[i].role, rows[i].message)]

\* C7 as stated: after a run has finished, list_chat_messages of the chat
\* returns the user's message and every message relayed during the run,
\* in order.
C7_TranscriptComplete ==
  \A r \in Slots :
    (Ended(r) /\ ~req[r].raised) => IsSubseq(Relayed(r), Listed(req[r].chat))

\* the login result carries a usable access token
HasAccessToken(res) ==
  "access_token" \in res.keys /\ res.access_token # None /\ res.access_token # ""

\* C8: authenticate answers 401 exactly for a login result without an
\* access token and has then written nothing to the session file; it
\* goes on to store a token only with a login result that has one, and
\* what it stores is that token.
C8_AuthenticateStoresOnlyAccessToken ==
  \A r \in Slots :
    (req[r].op = "authenticate" /\ req[r].pc # "request") =>
      /\ req[r].status = 401 <=> ~HasAccessToken(req[r].res)
      /\ req[r].status = 401 => (req[r].pc = "done" /\ req[r].writes = 0)
      /\ req[r].status # 401 =>
           /\ "token" \in req[r].sessions.keys
           /\ req[r].sessions.token = req[r].res.access_token
      /\ req[r].pc = "done" => req[r].status \in {401, 201}

C8_Witness ==
  \E r \in Slots :
    /\ req[r].op = "authenticate" /\ req[r].status = 401
    /\ sessionFile[req[r].chat].exists
    /\ ~sessionFile[req[r].chat].text.empty
    /\ sessionFile[req[r].chat].text.json.chat_history # <<>>

\* a non-empty token is stored for the session
HasStoredToken(c) ==
  /\ sessionFile[c].exists
  /\ ~sessionFile[c].text.empty
  /\ "token" \in sessionFile[c].text.json.keys
  /\ sessionFile[c].text.json.token # None
  /\ sessionFile[c].text.json.token # ""

\* C9: a verify_token call answers "Token authenticated" exactly when a
\* non-empty token is stored for the session at that moment, and
\* "Token not authenticated" otherwise; when save_token has written the
\* session file, verify_token answers "Token authenticated".
C9_VerifyToken ==
  [][ /\ \A r \in Slots :
          (req'[r].verifiedAt = nEvents' /\ nEvents' = nEvents + 1) =>
            /\ req'[r].verified \in {"Token authenticated", "Token not authenticated"}
            /\ req'[r].verified = "Token authenticated" <=> HasStoredToken(req[r].chat)
      /\ \A r \in Slots :
          (req[r].op = "authenticate" /\ req[r].pc = "save_write" /\ req'[r].pc = "done") =>
            verify_token(sessionFile'[req[r].chat]) = "Token authenticated" ]_vars

C9_Witness ==
  \E r \in Slots : req[r].verifiedAt > 0 /\ req[r].verified = "Token authenticated"

\* the exchanges for which make_request answers with an error dict
ErrorCase(o) == o.kind \in {"transport", "timeout"} \/ o.status = 401 \/ ~o.decodable

\* C10: after a 401 response, a transport failure, a timeout or an
\* undecodable body make_request has returned a dict with an "error" key;
\* and the request it sends carries "Authorization: Bearer <token>"
\* exactly when a non-empty token is stored for the session.
C10_MakeRequest ==
  /\ [](\A r \in Slots :
          (req[r].op = "authenticate" /\ req[r].pc # "request" /\ ErrorCase(req[r].outcome))
            => ("error" \in req[r].res.keys /\ req[r].res.error # ""))
  /\ [][\A r \in Slots :
          (req[r].pc = "idle" /\ req'[r].op = "authenticate") =>
            IF HasStoredToken(req'[r].chat)
            THEN req'[r].auth = Bearer(sessionFile[req'[r].chat].text.json.token)
            ELSE req'[r].auth = NoHeader]_vars

C10_Witness ==
  \E r \in Slots :
    /\ req[r].op = "authenticate" /\ req[r].pc = "done"
    /\ req[r].outcome.kind = "timeout"
    /\ req[r].auth # NoHeader

\* ---------------------------------------------------- chats and ownership
\* C11: a chat row is removed only by a delete_chat of the user who owns
\* it; a delete_chat for a chat of another user or for no chat answers with
\* its exception (status 404) at once, and that step leaves the chat rows,
\* the messages and the team-state files as they were.
C11_DeleteOnlyOwnChat ==
  [][ /\ \A c \in Chats :
           (chatOwner[c] # NoUser /\ chatOwner'[c] = NoUser) =>
             \E r \in Slots : /\ req[r].op = "delete_chat" /\ req[r].chat = c
                              /\ req[r].user = chatOwner[c]
                              /\ req'[r].status = 200
      /\ \A r \in Slots :
           (/\ req[r].pc = "idle" /\ req'[r].op = "delete_chat"
            /\ chatOwner[req'[r].chat] # req'[r].user) =>
             /\ req'[r].pc = "done" /\ req'[r].status = 404
             /\ UNCHANGED <<chatOwner, chatMessages, teamFile>> ]_vars

C11_Witness ==
  \E r \in Slots :
    /\ req[r].op = "delete_chat" /\ req[r].status = 404
    /\ chatOwner[req[r].chat] \notin {NoUser, req[r].user}
    /\ \E i \in 1..Len(chatMessages) : chatMessages[i].chat_id = req[r].chat

\* C12 as stated: once the background task of a successful delete_chat has
\* run for a chat (the file was removed or there was none), no team-state
\* file exists for that chat.
C12_NoTeamFileAfterDelete ==
  \A c \in hist.removed : ~teamFile[c].exists

\* C13: list_chats has returned exactly the chats the current user created
\* and has not deleted, all of them rows with the user's id;
\* get_user_chat_detail has answered 404 exactly for a chat that has no row
\* or the row of another user, and otherwise returned that chat.
C13_ReadsOnlyOwnChats ==
  \A r \in Slots :
    /\ (req[r].op = "list_chats" /\ req[r].pc = "done") =>
         /\ req[r].chats = {c \in Chats : /\ hist.creator[c] = req[r].user
                                          /\ c \notin hist.deleted}
         /\ \A c \in req[r].chats : chatOwner[c] = req[r].user
    /\ (req[r].op = "get_user_chat_detail" /\ req[r].pc = "done") =>
         /\ req[r].status = 404 <=> chatOwner[req[r].chat] # req[r].user
         /\ req[r].status # 404 => (req[r].status = 200 /\ req[r].chats = {req[r].chat})
         /\ req[r].status = 404 => req[r].chats = {}

C13_Witness ==
  \E r \in Slots :
    /\ req[r].op = "list_chats" /\ req[r].pc = "done" /\ req[r].chats # {}
    /\ \E c \in Chats : chatOwner[c] \notin {NoUser, req[r].user}

\* C14: every row of chat_messages references a chat that has a row; in
\* particular no message of a deleted chat is left.
C14_ReferentialIntegrity ==
  \A i \in 1..Len(chatMessages) : chatOwner[chatMessages[i].chat_id] # NoUser

C14_Witness ==
  \E r, q \in Slots :
    /\ req[r].op = "delete_chat" /\ req[r].pc = "background"
    /\ req[q].op = "query_chat" /\ req[q].status = 200 /\ req[q].chat = req[r].chat
    /\ chatMessages # <<>>

\* ------------------------------------------------------- user chat history
\* C15: a user's chat list never holds two entries with the same chat_id.
\* A call of add_chat_to_user for a pair that has no entry appends one
\* titled "New Chat" whose created_at equals its updated_at; a call for a
\* pair that has one changes only the updated_at of that entry; either
\* way every other entry of every user stays as it was.
C15_OneEntryPerChat ==
  /\ [](\A u \in Users : \A i, j \in 1..Len(userChats[u].list) :
          userChats[u].list[i].chat_id = userChats[u].list[j].chat_id => i = j)
  /\ [][\A u \in Users, c \in Chats :
          lastCall' = Call("add_chat_to_user", u, c, lastCall.n + 1) =>
            LET old == user_chats_get(userChats, u)
                new == user_chats_get(userChats', u)
            IN /\ \A v \in Users \ {u} : userChats'[v] = userChats[v]
               /\ IF HasChat(old, c)
                  THEN /\ Len(new) = Len(old)
                       /\ \A i \in 1..Len(old) :
                            IF old[i].chat_id = c
                            THEN new[i] = [old[i] EXCEPT !.updated_at = now']
                            ELSE new[i] = old[i]
                  ELSE /\ Len(new) = Len(old) + 1
                       /\ SubSeq(new, 1, Len(old)) = old
                       /\ new[Len(new)].title = "New Chat"
                       /\ new[Len(new)].chat_id = c
                       /\ new[Len(new)].user_id = u
                       /\ new[Len(new)].created_at = new[Len(new)].updated_at]_vars

C15_Witness ==
  \E u \in Users : \E i \in 1..Len(userChats[u].list) :
    /\ userChats[u].list[i].title = "Topic"
    /\ userChats[u].list[i].updated_at > userChats[u].list[i].created_at
    /\ lastCall.op = "add_chat_to_user" /\ lastCall.user = u
    /\ lastCall.chat = userChats[u].list[i].chat_id
    /\ \E v \in Users \ {u} : userChats[v].list # <<>>

\* ------------------------------------------------------------ user accounts
\* the row that makes authenticate succeed for (e, p): it has that email,
\* a password hash that p verifies against, and it is active
Admits(row, e, p) ==
  /\ row.exists /\ row.email = e
  /\ row.hashed_password # NoHash
  /\ row.hashed_password = <<"hash", p>>
  /\ row.is_active

Wanted(posts, kws) == {i \in 1..Len(posts) : posts[i].is_video /\ Matches(posts[i], kws)}

\* the downloaded videos of the result
Videos(result) == SelectSeq(result, LAMBDA item : item.kind = "video")

\* C18 as stated: whenever the listing the call receives has at least
\* limit posts that are videos and match, the call returns limit videos;
\* it never returns more than limit videos; and with nothing downloaded
\* the result is the one message and no history is saved.
C18_DownloadsLimit ==
  reddit.pc = "done" =>
    /\ Cardinality(Wanted(Listing(reddit.posts), reddit.desired_keywords)) >= reddit.limit
         => Len(Videos(reddit.result)) = reddit.limit
    /\ Len(Videos(reddit.result)) <= reddit.limit
    /\ Videos(reddit.result) = <<>> => (reddit.result = <<NoVideosFound>> /\ ~reddit.saved)

\* the wanted posts among the first ListingLimit whose download succeeds
Good(posts, kws) == {i \in Wanted(Listing(posts), kws) : posts[i].ok}

\* C18 amended: the call returns the first limit posts, in listing order,
\* among the first five of the listing that are videos, match the keywords
\* and download without error (all of them when there are fewer), a failed
\* download being passed over; so it returns limit videos whenever there
\* are at least limit such posts and never more than limit; with nothing
\* downloaded the result is the one message and no history is saved,
\* otherwise the history is saved.
C18_DownloadsLimitOfGood ==
  reddit.pc = "done" =>
    LET good == Good(reddit.posts, reddit.desired_keywords)
        videos == Videos(reddit.result)
    IN /\ Cardinality(good) >= reddit.limit => Len(videos) = reddit.limit
       /\ Cardinality(good) < reddit.limit => Len(videos) = Cardinality(good)
       /\ \A k \in 1..Len(videos) :
            /\ videos[k].post \in good
            /\ Cardinality({i \in good : i < videos[k].post}) = k - 1
            /\ videos[k].title = reddit.posts[videos[k].post].title
       /\ videos = <<>> => (reddit.result = <<NoVideosFound>> /\ ~reddit.saved)
       /\ videos # <<>> => (reddit.result = videos /\ reddit.saved)

C18_Witness ==
  /\ reddit.pc = "done"
  /\ reddit.limit = 2
  /\ Len(Videos(reddit.result)) = 2
  /\ \E i \in 1..Len(reddit.posts) :
       /\ ~reddit.posts[i].ok /\ reddit.posts[i].is_video
       /\ Matches(reddit.posts[i], reddit.desired_keywords)
       /\ i < reddit.result[2].post
  /\ reddit.desired_keywords # <<>>

\* the event the loop took last in slot r has no source, or is of a kind
\* the loop skips
Sourceless(q) == q.kind # "" /\ (q.kind \in Internals \/ q.source = "")

\* C19: an event of kind ToolCallExecutionEvent, MemoryQueryEvent or
\* ThoughtEvent, and any event whose source is empty or missing (the final
\* task result included), produces neither a persisted record nor an
\* output line: the pass that takes it leaves the session file, the
\* chat_messages table and the output of the run as they were and starts no
\* write, and no record or line of the run stems from such an event.
C19_InternalsSkipped ==
  /\ [](\A r \in Slots : \A i \in 1..Len(Trace(r)) :
          Trace(r)[i].k \in {"record", "line"} =>
            /\ Trace(r)[i].kind \notin Internals
            /\ Trace(r)[i].entry.role # "")
  /\ [][\A r \in Slots :
          (/\ Running(r, "query_chat", "next_message")
           /\ nEvents' = nEvents + 1
           /\ Sourceless(req'[r])) =>
            /\ req'[r].trace = req[r].trace
            /\ req'[r].pc \in {"next_message", "team_open"}
            /\ req'[r].pc = "team_open" <=> req'[r].kind = "UserInputRequestedEvent"
            /\ ~req'[r].raised
            /\ sessionFile' = sessionFile
            /\ chatMessages' = chatMessages]_vars

C19_Witness ==
  \E r \in Slots :
    /\ Running(r, "query_chat", "next_message")
    /\ req[r].kind = "MemoryQueryEvent" /\ req[r].source = "user"
    /\ nEvents = 2
    /\ Trace(r) = <<>>

\* the record of the event the loop took last in slot r
UserRecord(q) == TraceEntry("record", Entry(q.source, q.content, "text"), <<>>, q.kind)

\* that record is the last thing the run persisted or emitted
UserRecordIsLast(r) ==
  \E i \in 1..Len(Trace(r)) :
    /\ Trace(r)[i] = UserRecord(req[r])
    /\ \A j \in (i + 1)..Len(Trace(r)) : Trace(r)[j].k = "save"

Persisting(r) == req[r].pc \in {"save_open", "save_write"}

Plain(q) == q.source \in UserSources /\ q.kind \notin Internals \cup {"UserInputRequestedEvent"}

IsOutput(t) == t.k \in {"record", "line"}
Outputs(r) == SelectSeq(Trace(r), IsOutput)

IsPrefix(s, t) == Len(s) <= Len(t) /\ \A i \in 1..Len(s) : s[i] = t[i]

\* the type the loop gives to the record and line of an event of kind k
TypeOf(k) ==
  IF k = "ToolCallRequestEvent" THEN "tool_call"
  ELSE IF k \in ToolResults THEN "tool_result"
  ELSE "text"

\* g attributes every output of the run to one of the events delivered to
\* it, in their order, with at most one record and one line for an event
Attributes(g, out, ev) ==
  /\ \A i \in 1..Len(out) :
       /\ out[i].kind = ev[g[i]].kind
       /\ out[i].entry.role = ev[g[i]].source
       /\ out[i].entry.type = TypeOf(ev[g[i]].kind)
  /\ \A i, j \in 1..Len(out) :
       i < j => /\ g[i] <= g[j]
                /\ g[i] = g[j] => out[i].k # out[j].k

\* C21: the records persisted and the lines emitted during one chat_stream
\* run appear in the order in which the runtime delivered the events, with
\* at most one record and at most one line for an event; a text message
\* gives type "text", a tool-call request type "tool_call", a tool result
\* or tool-call summary type "tool_result".  The outputs and the events of
\* a run only grow at their end, and a record is the last entry of the
\* stored chat history when it has been written.
C21_OutputsInEventOrder ==
  /\ [](\A r \in Slots :
          \E g \in [1..Len(Outputs(r)) -> 1..Len(req[r].events)] :
            Attributes(g, Outputs(r), req[r].events))
  /\ [][\A r \in Slots :
          /\ (req[r].pc # "idle" /\ req'[r].pc # "idle") =>
               /\ IsPrefix(req[r].trace, req'[r].trace)
               /\ IsPrefix(req[r].events, req'[r].events)
               /\ Len(req'[r].events) <= Len(req[r].events) + 1
          /\ (Running(r, "query_chat", "save_write") /\ req'[r].pc = "next_message") =>
               LET history == async_read_json(sessionFile'[req[r].chat]).chat_history
               IN /\ Len(history) > 0
                  /\ history[Len(history)] = req[r].step.entry
                  /\ req'[r].trace[Len(req[r].trace) + 1].k = "record"
                  /\ req'[r].trace[Len(req[r].trace) + 1].entry = req[r].step.entry]_vars

C21_Witness ==
  \E r \in Slots :
    /\ Len(Outputs(r)) = 4
    /\ Outputs(r)[1].entry.type = "tool_call" /\ Outputs(r)[1].k = "record"
    /\ Outputs(r)[4].entry.type = "tool_result" /\ Outputs(r)[4].k = "line"
    /\ Len(req[r].events) = 2

\* C22: the control token TERMINATE never reaches the user: no line
\* chat_stream emits and no record it persists for an event of an agent
\* (a source that is not of the user side) contains TERMINATE.
C22_NoTerminateInOutput ==
  \A r \in Slots : \A i \in 1..Len(Trace(r)) :
    (IsOutput(Trace(r)[i]) /\ Trace(r)[i].entry.role \notin UserSources) =>
      /\ ~Contains(Trace(r)[i].entry.message, TERMINATE)
      /\ ~Contains(Trace(r)[i].chunk, TERMINATE)

\* the dict add_chat_session works on after its read of the file
ReadSessions(c) ==
  LET read == async_read_json(sessionFile[c])
  IN IF read.keys = {} THEN NewSessions ELSE read

\* the slot is about to write, or is writing, the session file of its chat
Saving(r, op) == req[r].op = op /\ Persisting(r)

\* C23: the session store is changed only where an operation says so.  The
\* dict add_chat_session saves is the one it read with exactly one entry
\* appended at the end of chat_history, the token and every earlier entry
\* as read; the dict update_token saves is the one it read with only the
\* token changed; save_sessions stores that dict as it is, and a call that
\* raises stores nothing.
C23_SessionFrame ==
  [][\A r \in Slots :
       /\ (Running(r, "query_chat", "next_message") /\ Saving(r, "query_chat")') =>
            LET read == ReadSessions(req[r].chat)
                new == req'[r].sessions
            IN /\ new.chat_history = Append(read.chat_history, req'[r].step.entry)
               /\ new.token = read.token
               /\ new.keys = read.keys
               /\ sessionFile' = sessionFile
       /\ (Running(r, "query_chat", "next_message") /\ req'[r].raised) =>
            sessionFile' = sessionFile
       /\ (Running(r, "authenticate", "request") /\ Saving(r, "authenticate")') =>
            LET read == async_read_json(sessionFile[req[r].chat])
                new == req'[r].sessions
            IN /\ new.chat_history = read.chat_history
               /\ new.keys = read.keys \cup {"token"}
               /\ new.token = AccessToken(req'[r].res)
               /\ sessionFile' = sessionFile
       /\ (req[r].pc = "save_write" /\ req'[r].pc # "save_write" /\ ~req'[r].raised) =>
            /\ sessionFile'[req[r].chat].exists
            /\ async_read_json(sessionFile'[req[r].chat]) = req[r].sessions]_vars

\* a run has appended to a session that already held a token and an entry
C23_Witness ==
  \E r \in Slots :
    /\ Running(r, "query_chat", "next_message")
    /\ Trace(r) # <<>>
    /\ LET stored == async_read_json(sessionFile[req[r].chat])
       IN /\ stored.token = Token
          /\ Len(stored.chat_history) = 2
          /\ stored.chat_history[2] = Trace(r)[Len(Trace(r))].entry

\* C24: after any sequence of save_token/update_token and add_chat_session
\* calls on a session that started without a file, the stored session
\* record holds both a token field and a chat_history list, so that
\* add_chat_session does not fail on it.
C24_SessionComplete ==
  \A c \in Chats :
    (sessionFile[c].exists /\ ~sessionFile[c].text.empty) =>
      /\ {"token", "chat_history"} \subseteq async_read_json(sessionFile[c]).keys
      /\ add_chat_session(sessionFile[c], NoEntry).ok

\* no request is between the open and the end of a write of the file of c
Quiet(c) == \A r \in Slots : req[r].chat = c => ~Persisting(r)

\* C25: no update to a session is lost under concurrent requests: when
\* the calls of add_chat_session and update_token for a session have
\* returned, whatever the interleaving of their reads and writes, the
\* stored session holds the entry of every add_chat_session call and the
\* token of the update_token call.
C25_NoLostUpdate ==
  \A c \in Chats :
    Quiet(c) =>
      \A r \in Slots :
        req[r].chat = c =>
          LET stored == async_read_json(sessionFile[c])
          IN /\ \A i \in 1..Len(Trace(r)) :
                  Trace(r)[i].k = "record" =>
                    \E j \in 1..Len(stored.chat_history) :
                      stored.chat_history[j] = Trace(r)[i].entry
             /\ (req[r].op = "authenticate" /\ req[r].status = 201) =>
                  stored.token = AccessToken(req[r].res)

RaisedRelaying(r) == req[r].op = "query_chat" /\ req[r].raised /\ req[r].state = NoState

\* C27: when an exception is raised while chat_stream is relaying events,
\* no team state is saved for that run: the team-state file of the session
\* keeps the content it had before the request, and the chat-history
\* records persisted before the failure remain stored.  Stated for a run
\* that is the only request made, so that no other request has written.
C27_ErrorKeepsStores ==
  \A r \in Slots :
    (RaisedRelaying(r) /\ nReq = 1) =>
      /\ get_team_state(teamFile[req[r].chat]) = req[r].loaded
      /\ \A i \in 1..Len(Trace(r)) : Trace(r)[i].k # "save"
      /\ LET stored == async_read_json(sessionFile[req[r].chat])
         IN \A i \in 1..Len(Trace(r)) :
              Trace(r)[i].k = "record" =>
                \E j \in 1..Len(stored.chat_history) :
                  stored.chat_history[j] = Trace(r)[i].entry

\* C28: query_chat runs the agent team, records messages and writes team
\* state for a chat only when the chat exists and is owned by the current
\* user: a request that got its stream, and every row of chat_messages,
\* belongs to a chat created by the user who made the request.
C28_QueryOnlyOwnChat ==
  \A r \in Slots :
    (req[r].op = "query_chat" /\ req[r].status = 200) =>
      hist.creator[req[r].chat] = req[r].user

\* C29: update_user modifies the record identified by user_id only when
\* the email and password supplied authenticate that same user: the update
\* that follows a passed credential check changes no row but the row of
\* the user the check returned, and a failed check starts no update.
C29_UpdateOnlyOwnRecord ==
  [][/\ (userReq.pc = "idle" /\ userReq'.pc = "update") =>
         (lastAuth'.outcome = "user" /\ userReq'.by = lastAuth'.id /\ users' = users)
     /\ (userReq.pc = "update" /\ userReq'.pc = "idle") =>
          \A id \in Users : users'[id] # users[id] => id = userReq.by]_vars

\* a call of authenticate_youtube has returned
Called == youtube.n > 0 /\ ~youtube.result.raised

\* C30: authenticate_youtube builds the YouTube client only from valid
\* credentials: stored credentials that are valid are reused without a
\* refresh or an OAuth flow, and whenever the stored credentials are
\* missing, unreadable or not valid the call ends with credentials obtained
\* by a successful refresh or a new OAuth flow, which are then written to
\* the token file; a failed refresh deletes the token file and falls back
\* to the flow.
C30_ClientFromValidCredentials ==
  Called =>
    LET stored == LoadCreds(youtube.before)
        result == youtube.result
    IN /\ result.built /\ valid(result.creds)
       /\ (~stored.none /\ valid(stored)) =>
            /\ result.creds = stored
            /\ ~result.refreshed /\ ~result.flowed /\ ~result.written
       /\ (stored.none \/ ~valid(stored)) =>
            /\ result.creds.origin \in {"refresh", "flow"}
            /\ result.refreshed # result.flowed
            /\ result.written
       /\ result.removed => result.flowed

====
